---- MODULE Spec2Model ----
(***************************************************************************)
(* Model of the parameter resolution engine of SmartLameParameters:        *)
(* the formula library, calculateAllParameters and checkConsistency of     *)
(* src/src/calculations.ts.                                                *)
(*                                                                         *)
(* A JavaScript number is modelled as an exact rational <<n, d>> in lowest *)
(* terms with d > 0, extended with the IEEE-754 results of a division by   *)
(* zero: <<1, 0>> is +Infinity, <<-1, 0>> is -Infinity and <<0, 0>> is NaN.*)
(* An absent (undefined) field is the empty tuple.                         *)
(***************************************************************************)
EXTENDS Integers, Sequences, FiniteSets, TLC

\* ------------------------------------------------------------------ bounds

\* moduli (lambda, mu, E, K) are the integers -NegModulus..MaxModulus
NegModulus == 1
MaxModulus == 3
\* a caller's record holds at most MaxPresent of lambda, mu, E, K, nu
MaxPresent == 3
\* Poisson's ratios are the fractions n/NuSteps, |n| <= NuSteps
NuSteps == 4
\* the records with any number of fields present draw lambda, mu, E, K and G
\* from the integers 0..DenseModulus
DenseModulus == 2
\* a session of the calculator hook has at most MaxActions calls by the user
MaxActions == 3

\* ------------------------------------------------------------- JS numbers

Undef == <<>>

Sign(n) == IF n > 0 THEN 1 ELSE IF n < 0 THEN -1 ELSE 0

IAbs(n) == IF n < 0 THEN -n ELSE n

RECURSIVE GCD(_, _)
GCD(a, b) == IF b = 0 THEN a ELSE GCD(b, a % b)

Norm(n, d) ==
  IF d = 0 THEN <<Sign(n), 0>>
  ELSE LET g == GCD(IAbs(n), IAbs(d))
           s == Sign(d)
       IN <<(s * n) \div g, (s * d) \div g>>

I(n) == <<n, 1>>

PosInf == <<1, 0>>
NegInf == <<-1, 0>>
NaN == <<0, 0>>

IsFinite(x) == x[2] # 0

IsNaN(x) == x = NaN

\* x + y
RAdd(x, y) ==
  IF ~IsFinite(x) /\ ~IsFinite(y)
  THEN (IF x = y THEN x ELSE NaN)
  ELSE Norm(x[1] * y[2] + y[1] * x[2], x[2] * y[2])

\* -x
RNeg(x) == <<-x[1], x[2]>>

\* x - y
RSub(x, y) == RAdd(x, RNeg(y))

\* x * y
RMul(x, y) == Norm(x[1] * y[1], x[2] * y[2])

\* x / y, as IEEE-754 divides: a finite x over 0 is an infinity, 0 / 0 is NaN
RDiv(x, y) ==
  IF y[2] = 0 /\ x[2] = 0 THEN NaN
  ELSE IF y[1] < 0 THEN Norm(-(x[1] * y[2]), -(x[2] * y[1]))
  ELSE Norm(x[1] * y[2], x[2] * y[1])

\* Math.abs
RAbs(x) == <<IAbs(x[1]), x[2]>>

\* x < y (false when either is NaN)
RLt(x, y) ==
  IF IsNaN(x) \/ IsNaN(y) THEN FALSE
  ELSE IF IsFinite(x) /\ IsFinite(y) THEN x[1] * y[2] < y[1] * x[2]
  ELSE IF x = y THEN FALSE
  ELSE x = NegInf \/ y = PosInf

\* x > y (false when either is NaN)
RGt(x, y) == RLt(y, x)

\* x <= y (false when either is NaN)
RLe(x, y) == ~IsNaN(x) /\ ~IsNaN(y) /\ (x = y \/ RLt(x, y))

\* x >= y (false when either is NaN)
RGe(x, y) == RLe(y, x)

\* the integer square root of a perfect square, -1 when n is not one
ISqrt(n) ==
  IF \E r \in 0..n : r * r = n THEN CHOOSE r \in 0..n : r * r = n ELSE -1

\* the numbers whose square root is a rational
HasExactSqrt(x) ==
  /\ x[1] >= 0
  /\ ISqrt(x[1]) >= 0
  /\ ISqrt(x[2]) >= 0

\* Math.sqrt, on the numbers whose root is a rational
RSqrt(x) == Norm(ISqrt(x[1]), ISqrt(x[2]))

\* EPSILON = 1e-12 = 10^(-EPSILON_EXP)
EPSILON_EXP == 12

RECURSIVE DivPow10(_, _)
DivPow10(m, k) == IF k = 0 THEN m ELSE DivPow10(m \div 10, k - 1)

\* x < EPSILON for x >= 0: n/d < 10^-12 iff n * 10^12 <= d - 1
LtEpsilon(x) ==
  /\ IsFinite(x)
  /\ x[1] <= DivPow10(x[2] - 1, EPSILON_EXP)

\* ------------------------------------------------------- formula library

\* a formula function either returns a number or throws an Error
Return(v) == [ok |-> TRUE, val |-> v, msg |-> ""]
Throw(m) == [ok |-> FALSE, val |-> NaN, msg |-> m]

TwoThirds == Norm(2, 3)

\* calculateE_from_lambda_mu without its guard
calculateE_from_lambda_mu_NoGuard(lambda, mu) ==
  Return(RDiv(RMul(mu, RAdd(RMul(I(3), lambda), RMul(I(2), mu))),
              RAdd(lambda, mu)))

calculateE_from_lambda_mu(lambda, mu) ==
  IF LtEpsilon(RAbs(RAdd(lambda, mu)))
  THEN Throw("Division by zero: lambda + mu ~ 0")
  ELSE Return(RDiv(RMul(mu, RAdd(RMul(I(3), lambda), RMul(I(2), mu))),
                   RAdd(lambda, mu)))

calculateNu_from_lambda_mu(lambda, mu) ==
  IF LtEpsilon(RAbs(RMul(I(2), RAdd(lambda, mu))))
  THEN Throw("Division by zero: 2(lambda + mu) ~ 0")
  ELSE Return(RDiv(lambda, RMul(I(2), RAdd(lambda, mu))))

\* calculateK_from_lambda_mu with (1/3)mu for (2/3)mu
calculateK_from_lambda_mu_Third(lambda, mu) ==
  Return(RAdd(lambda, RMul(Norm(1, 3), mu)))

calculateK_from_lambda_mu(lambda, mu) ==
  Return(RAdd(lambda, RMul(TwoThirds, mu)))

calculateMu_from_E_nu(E, nu) ==
  IF LtEpsilon(RAbs(RMul(I(2), RAdd(I(1), nu))))
  THEN Throw("Division by zero: 2(1 + nu) ~ 0")
  ELSE Return(RDiv(E, RMul(I(2), RAdd(I(1), nu))))

calculateLambda_from_E_nu(E, nu) ==
  LET denom == RMul(RAdd(I(1), nu), RSub(I(1), RMul(I(2), nu)))
  IN IF LtEpsilon(RAbs(denom))
     THEN Throw("Division by zero: (1 + nu)(1 - 2nu) ~ 0")
     ELSE Return(RDiv(RMul(E, nu), denom))

calculateK_from_E_nu(E, nu) ==
  IF LtEpsilon(RAbs(RMul(I(3), RSub(I(1), RMul(I(2), nu)))))
  THEN Throw("Division by zero: 3(1 - 2nu) ~ 0")
  ELSE Return(RDiv(E, RMul(I(3), RSub(I(1), RMul(I(2), nu)))))

calculateE_from_mu_nu(mu, nu) ==
  Return(RMul(RMul(I(2), mu), RAdd(I(1), nu)))

calculateLambda_from_mu_nu(mu, nu) ==
  IF LtEpsilon(RAbs(RSub(I(1), RMul(I(2), nu))))
  THEN Throw("Division by zero: 1 - 2nu ~ 0")
  ELSE Return(RDiv(RMul(RMul(I(2), mu), nu), RSub(I(1), RMul(I(2), nu))))

calculateK_from_mu_nu(mu, nu) ==
  IF LtEpsilon(RAbs(RMul(I(3), RSub(I(1), RMul(I(2), nu)))))
  THEN Throw("Division by zero: 3(1 - 2nu) ~ 0")
  ELSE Return(RDiv(RMul(RMul(I(2), mu), RAdd(I(1), nu)),
                   RMul(I(3), RSub(I(1), RMul(I(2), nu)))))

calculateE_from_K_nu(K, nu) ==
  Return(RMul(RMul(I(3), K), RSub(I(1), RMul(I(2), nu))))

calculateMu_from_K_nu(K, nu) ==
  IF LtEpsilon(RAbs(RMul(I(2), RAdd(I(1), nu))))
  THEN Throw("Division by zero: 2(1 + nu) ~ 0")
  ELSE Return(RDiv(RMul(RMul(I(3), K), RSub(I(1), RMul(I(2), nu))),
                   RMul(I(2), RAdd(I(1), nu))))

calculateLambda_from_K_nu(K, nu) ==
  IF LtEpsilon(RAbs(RAdd(I(1), nu)))
  THEN Throw("Division by zero: 1 + nu ~ 0")
  ELSE Return(RDiv(RMul(RMul(I(3), K), nu), RAdd(I(1), nu)))

calculateE_from_K_mu(K, mu) ==
  IF LtEpsilon(RAbs(RAdd(RMul(I(3), K), mu)))
  THEN Throw("Division by zero: 3K + mu ~ 0")
  ELSE Return(RDiv(RMul(RMul(I(9), K), mu), RAdd(RMul(I(3), K), mu)))

calculateNu_from_K_mu(K, mu) ==
  IF LtEpsilon(RAbs(RAdd(RMul(I(6), K), RMul(I(2), mu))))
  THEN Throw("Division by zero: 6K + 2mu ~ 0")
  ELSE Return(RDiv(RSub(RMul(I(3), K), RMul(I(2), mu)),
                   RAdd(RMul(I(6), K), RMul(I(2), mu))))

calculateLambda_from_K_mu(K, mu) ==
  Return(RSub(K, RMul(TwoThirds, mu)))

calculateNu_from_E_mu(E, mu) ==
  IF LtEpsilon(RAbs(RMul(I(2), mu)))
  THEN Throw("Division by zero: 2mu ~ 0")
  ELSE Return(RSub(RDiv(E, RMul(I(2), mu)), I(1)))

calculateK_from_E_mu(E, mu) ==
  IF LtEpsilon(RAbs(RMul(I(3), RSub(RMul(I(3), mu), E))))
  THEN Throw("Division by zero: 3(3mu - E) ~ 0")
  ELSE Return(RDiv(RMul(E, mu), RMul(I(3), RSub(RMul(I(3), mu), E))))

calculateLambda_from_E_mu(E, mu) ==
  IF LtEpsilon(RAbs(RSub(RMul(I(3), mu), E)))
  THEN Throw("Division by zero: 3mu - E ~ 0")
  ELSE Return(RDiv(RMul(mu, RSub(E, RMul(I(2), mu))),
                   RSub(RMul(I(3), mu), E)))

calculateMu_from_E_K(E, K) ==
  IF LtEpsilon(RAbs(RSub(RMul(I(9), K), E)))
  THEN Throw("Division by zero: 9K - E ~ 0")
  ELSE Return(RDiv(RMul(RMul(I(3), K), E), RSub(RMul(I(9), K), E)))

calculateNu_from_E_K(E, K) ==
  IF LtEpsilon(RAbs(RMul(I(6), K)))
  THEN Throw("Division by zero: 6K ~ 0")
  ELSE Return(RDiv(RSub(RMul(I(3), K), E), RMul(I(6), K)))

calculateLambda_from_E_K(E, K) ==
  IF LtEpsilon(RAbs(RSub(RMul(I(9), K), E)))
  THEN Throw("Division by zero: 9K - E ~ 0")
  ELSE Return(RDiv(RMul(RMul(I(3), K), RSub(RMul(I(3), K), E)),
                   RSub(RMul(I(9), K), E)))

calculateE_from_lambda_nu(lambda, nu) ==
  IF LtEpsilon(RAbs(nu))
  THEN Throw("Division by zero: nu ~ 0")
  ELSE Return(RDiv(RMul(RMul(lambda, RAdd(I(1), nu)),
                        RSub(I(1), RMul(I(2), nu))), nu))

calculateMu_from_lambda_nu(lambda, nu) ==
  IF LtEpsilon(RAbs(RMul(I(2), nu)))
  THEN Throw("Division by zero: 2nu ~ 0")
  ELSE Return(RDiv(RMul(lambda, RSub(I(1), RMul(I(2), nu))), RMul(I(2), nu)))

calculateK_from_lambda_nu(lambda, nu) ==
  IF LtEpsilon(RAbs(RMul(I(3), nu)))
  THEN Throw("Division by zero: 3nu ~ 0")
  ELSE Return(RDiv(RMul(lambda, RAdd(I(1), nu)), RMul(I(3), nu)))

calculateE_from_lambda_K(lambda, K) ==
  IF LtEpsilon(RAbs(RSub(RMul(I(3), K), lambda)))
  THEN Throw("Division by zero: 3K - lambda ~ 0")
  ELSE Return(RDiv(RMul(RMul(I(9), K), RSub(K, lambda)),
                   RSub(RMul(I(3), K), lambda)))

\* calculateMu_from_lambda_K with 2/3 for 3/2
calculateMu_from_lambda_K_Inverse(lambda, K) ==
  Return(RMul(Norm(2, 3), RSub(K, lambda)))

calculateMu_from_lambda_K(lambda, K) ==
  Return(RMul(Norm(3, 2), RSub(K, lambda)))

calculateNu_from_lambda_K(lambda, K) ==
  IF LtEpsilon(RAbs(RSub(RMul(I(3), K), lambda)))
  THEN Throw("Division by zero: 3K - lambda ~ 0")
  ELSE Return(RDiv(lambda, RSub(RMul(I(3), K), lambda)))

\* --------------------------------------------------------------- resolver

\* MaterialParameters, with the G alias the resolver reads through a cast
Fields == {"lambda", "mu", "E", "K", "nu", "rho", "G"}

\* the five elastic parameters the resolver counts and fills
Elastic == {"lambda", "mu", "E", "K", "nu"}

\* the formula function named fn, applied to (a, b)
Apply(fn, a, b) ==
  CASE fn = "E_from_lambda_mu" -> calculateE_from_lambda_mu(a, b)
    [] fn = "Nu_from_lambda_mu" -> calculateNu_from_lambda_mu(a, b)
    [] fn = "K_from_lambda_mu" -> calculateK_from_lambda_mu(a, b)
    [] fn = "Mu_from_E_nu" -> calculateMu_from_E_nu(a, b)
    [] fn = "Lambda_from_E_nu" -> calculateLambda_from_E_nu(a, b)
    [] fn = "K_from_E_nu" -> calculateK_from_E_nu(a, b)
    [] fn = "E_from_mu_nu" -> calculateE_from_mu_nu(a, b)
    [] fn = "Lambda_from_mu_nu" -> calculateLambda_from_mu_nu(a, b)
    [] fn = "K_from_mu_nu" -> calculateK_from_mu_nu(a, b)
    [] fn = "E_from_K_nu" -> calculateE_from_K_nu(a, b)
    [] fn = "Mu_from_K_nu" -> calculateMu_from_K_nu(a, b)
    [] fn = "Lambda_from_K_nu" -> calculateLambda_from_K_nu(a, b)
    [] fn = "E_from_K_mu" -> calculateE_from_K_mu(a, b)
    [] fn = "Nu_from_K_mu" -> calculateNu_from_K_mu(a, b)
    [] fn = "Lambda_from_K_mu" -> calculateLambda_from_K_mu(a, b)
    [] fn = "Nu_from_E_mu" -> calculateNu_from_E_mu(a, b)
    [] fn = "K_from_E_mu" -> calculateK_from_E_mu(a, b)
    [] fn = "Lambda_from_E_mu" -> calculateLambda_from_E_mu(a, b)
    [] fn = "Mu_from_E_K" -> calculateMu_from_E_K(a, b)
    [] fn = "Nu_from_E_K" -> calculateNu_from_E_K(a, b)
    [] fn = "Lambda_from_E_K" -> calculateLambda_from_E_K(a, b)
    [] fn = "E_from_lambda_nu" -> calculateE_from_lambda_nu(a, b)
    [] fn = "Mu_from_lambda_nu" -> calculateMu_from_lambda_nu(a, b)
    [] fn = "K_from_lambda_nu" -> calculateK_from_lambda_nu(a, b)
    [] fn = "E_from_lambda_K" -> calculateE_from_lambda_K(a, b)
    [] fn = "Mu_from_lambda_K" -> calculateMu_from_lambda_K(a, b)
    [] fn = "Nu_from_lambda_K" -> calculateNu_from_lambda_K(a, b)

\* one "if (result.X === undefined) { result.X = f(a, b); derivations.push(d) }"
Step(target, fn, deriv) == [target |-> target, fn |-> fn, deriv |-> deriv]

\* the bodies of the nine branches that call formula functions, in source order
BranchLambdaMu ==
  [a |-> "lambda", b |-> "mu", steps |-> <<
     Step("E", "E_from_lambda_mu", "E = mu(3lambda + 2mu) / (lambda + mu)"),
     Step("nu", "Nu_from_lambda_mu", "nu = lambda / (2(lambda + mu))"),
     Step("K", "K_from_lambda_mu", "K = lambda + (2/3)mu")>>]

BranchENu ==
  [a |-> "E", b |-> "nu", steps |-> <<
     Step("mu", "Mu_from_E_nu", "mu = E / (2(1 + nu))"),
     Step("lambda", "Lambda_from_E_nu", "lambda = E nu / ((1 + nu)(1 - 2nu))"),
     Step("K", "K_from_E_nu", "K = E / (3(1 - 2nu))")>>]

BranchMuNu ==
  [a |-> "mu", b |-> "nu", steps |-> <<
     Step("E", "E_from_mu_nu", "E = 2mu(1 + nu)"),
     Step("lambda", "Lambda_from_mu_nu", "lambda = 2mu nu / (1 - 2nu)"),
     Step("K", "K_from_mu_nu", "K = 2mu(1 + nu) / (3(1 - 2nu))")>>]

BranchKNu ==
  [a |-> "K", b |-> "nu", steps |-> <<
     Step("E", "E_from_K_nu", "E = 3K(1 - 2nu)"),
     Step("mu", "Mu_from_K_nu", "mu = 3K(1 - 2nu) / (2(1 + nu))"),
     Step("lambda", "Lambda_from_K_nu", "lambda = 3K nu / (1 + nu)")>>]

BranchKMu ==
  [a |-> "K", b |-> "mu", steps |-> <<
     Step("E", "E_from_K_mu", "E = 9K mu / (3K + mu)"),
     Step("nu", "Nu_from_K_mu", "nu = (3K - 2mu) / (6K + 2mu)"),
     Step("lambda", "Lambda_from_K_mu", "lambda = K - (2/3)mu")>>]

BranchEMu ==
  [a |-> "E", b |-> "mu", steps |-> <<
     Step("nu", "Nu_from_E_mu", "nu = E/(2mu) - 1"),
     Step("K", "K_from_E_mu", "K = E mu / (3(3mu - E))"),
     Step("lambda", "Lambda_from_E_mu", "lambda = mu(E - 2mu) / (3mu - E)")>>]

BranchEK ==
  [a |-> "E", b |-> "K", steps |-> <<
     Step("mu", "Mu_from_E_K", "mu = 3KE / (9K - E)"),
     Step("nu", "Nu_from_E_K", "nu = (3K - E) / (6K)"),
     Step("lambda", "Lambda_from_E_K", "lambda = 3K(3K - E) / (9K - E)")>>]

BranchLambdaNu ==
  [a |-> "lambda", b |-> "nu", steps |-> <<
     Step("E", "E_from_lambda_nu", "E = lambda(1 + nu)(1 - 2nu) / nu"),
     Step("mu", "Mu_from_lambda_nu", "mu = lambda(1 - 2nu) / (2nu)"),
     Step("K", "K_from_lambda_nu", "K = lambda(1 + nu) / (3nu)")>>]

BranchLambdaK ==
  [a |-> "lambda", b |-> "K", steps |-> <<
     Step("E", "E_from_lambda_K", "E = 9K(K - lambda) / (3K - lambda)"),
     Step("mu", "Mu_from_lambda_K", "mu = (3/2)(K - lambda)"),
     Step("nu", "Nu_from_lambda_K", "nu = lambda / (3K - lambda)")>>]

\* the nu and K steps of the (lambda, E) branch, run on (lambda, selected mu)
BranchLambdaETail ==
  [a |-> "lambda", b |-> "mu", steps |-> <<
     Step("nu", "Nu_from_lambda_mu", "nu = lambda / (2(lambda + mu))"),
     Step("K", "K_from_lambda_mu", "K = lambda + (2/3)mu")>>]

\* the template string `Calculation error: ${message}` of the catch block
CalculationError(msg) == <<"Calculation error: ", msg>>

\* Assign without its derivations.push
Assign_NoTrace(acc, s, r) ==
  IF r.ok
  THEN [acc EXCEPT !.parameters[s.target] = r.val]
  ELSE [acc EXCEPT !.thrown = r.msg]

\* what a step does with the outcome r of its formula call: assign and log, or
\* let the Error leave the try block (thrown holds its message, "" for none)
Assign(acc, s, r) ==
  IF r.ok
  THEN [acc EXCEPT !.parameters[s.target] = r.val,
                   !.derivations = Append(@, s.deriv)]
  ELSE [acc EXCEPT !.thrown = r.msg]

\* RunStep without the "=== undefined" test: the target is always recomputed
RunStep_Overwrite(acc, branch, s) ==
  Assign(acc, s, Apply(s.fn, acc.parameters[branch.a], acc.parameters[branch.b]))

\* the i-th step of a branch: skipped when its target is already set
RunStep(acc, branch, s) ==
  IF acc.parameters[s.target] # Undef THEN acc
  ELSE Assign(acc, s, Apply(s.fn, acc.parameters[branch.a], acc.parameters[branch.b]))

\* the steps of a branch from the i-th on, inside the try block: a throw leaves
\* the try block, so nothing after it in the branch runs
RECURSIVE RunSteps(_, _, _)
RunSteps(acc, branch, i) ==
  IF i > Len(branch.steps) \/ acc.thrown # "" THEN acc
  ELSE RunSteps(RunStep(acc, branch, branch.steps[i]), branch, i + 1)

\* the discriminant b*b - 4*a*c of 2mu^2 + mu(3lambda - E) - E lambda = 0
\* Discriminant with "b * b + 4 * a * c"
Discriminant_Plus(lambda, E) ==
  LET a == I(2)
      b == RSub(RMul(I(3), lambda), E)
      c == RMul(RNeg(E), lambda)
  IN RAdd(RMul(b, b), RMul(RMul(I(4), a), c))

Discriminant(lambda, E) ==
  LET a == I(2)
      b == RSub(RMul(I(3), lambda), E)
      c == RMul(RNeg(E), lambda)
  IN RSub(RMul(b, b), RMul(RMul(I(4), a), c))

\* result.mu = mu1 > 0 ? mu1 : mu2
\* SelectRoot with the second root tried first
SelectRoot_SecondFirst(mu1, mu2) == IF RGt(mu2, I(0)) THEN mu2 ELSE mu1

SelectRoot(mu1, mu2) == IF RGt(mu1, I(0)) THEN mu1 ELSE mu2

\* (-b + sign * sqrt(discriminant)) / (2 * a), with a = 2
Root(b, discriminant, sign) ==
  RDiv(RAdd(RNeg(b), RMul(I(sign), RSqrt(discriminant))), RMul(I(2), I(2)))

\* AssignMu with "result.mu >= 0" for its test
AssignMu_NonNegative(acc, mu) ==
  LET withMu == [acc EXCEPT
                   !.parameters["mu"] = mu,
                   !.derivations = Append(@,
                     "mu from quadratic: 2mu^2 + mu(3lambda - E) - E lambda = 0")]
  IN IF RGe(mu, I(0)) THEN RunSteps(withMu, BranchLambdaETail, 1) ELSE withMu

\* AssignMu with the test of the selected mu inverted
AssignMu_Inverted(acc, mu) ==
  LET withMu == [acc EXCEPT
                   !.parameters["mu"] = mu,
                   !.derivations = Append(@,
                     "mu from quadratic: 2mu^2 + mu(3lambda - E) - E lambda = 0")]
  IN IF RLt(mu, I(0)) THEN RunSteps(withMu, BranchLambdaETail, 1) ELSE withMu

\* the selected root is stored and logged; nu and K follow only "if (result.mu > 0)"
AssignMu(acc, mu) ==
  LET withMu == [acc EXCEPT
                   !.parameters["mu"] = mu,
                   !.derivations = Append(@,
                     "mu from quadratic: 2mu^2 + mu(3lambda - E) - E lambda = 0")]
  IN IF RGt(mu, I(0)) THEN RunSteps(withMu, BranchLambdaETail, 1) ELSE withMu

\* the roots of the quadratic for given b and discriminant >= 0
SolveQuadratic(acc, b, discriminant) ==
  AssignMu(acc, SelectRoot(Root(b, discriminant, 1), Root(b, discriminant, -1)))

\* the (lambda, E) branch
BranchLambdaE(acc) ==
  IF RLt(Discriminant(acc.parameters["lambda"], acc.parameters["E"]), I(0))
  THEN [acc EXCEPT !.warnings =
          Append(@, <<"No real solution for mu from lambda and E (negative discriminant)">>)]
  ELSE SolveQuadratic(acc,
         RSub(RMul(I(3), acc.parameters["lambda"]), acc.parameters["E"]),
         Discriminant(acc.parameters["lambda"], acc.parameters["E"]))

Has(rec, f) == rec[f] # Undef

\* the call without the alias: G is never read
NormalizeG_NoAlias(input) == input

\* "Normalize G to mu"
NormalizeG(input) ==
  IF input["mu"] = Undef /\ input["G"] # Undef
  THEN [input EXCEPT !["mu"] = input["G"]]
  ELSE input

\* the branch of the (lambda, E) pair, whose body is BranchLambdaE, and the
\* fall-through of the chain when no pair matches
BranchQuadratic == [a |-> "lambda", b |-> "E", steps |-> <<>>]

NoBranch == [a |-> "", b |-> "", steps |-> <<>>]

\* the chain with the (mu, nu) test moved before the (E, nu) test
SelectBranch_MuNuFirst(result) ==
  IF Has(result, "lambda") /\ Has(result, "mu") THEN BranchLambdaMu
  ELSE IF Has(result, "mu") /\ Has(result, "nu") THEN BranchMuNu
  ELSE IF Has(result, "E") /\ Has(result, "nu") THEN BranchENu
  ELSE IF Has(result, "K") /\ Has(result, "nu") THEN BranchKNu
  ELSE IF Has(result, "K") /\ Has(result, "mu") THEN BranchKMu
  ELSE IF Has(result, "E") /\ Has(result, "mu") THEN BranchEMu
  ELSE IF Has(result, "E") /\ Has(result, "K") THEN BranchEK
  ELSE IF Has(result, "lambda") /\ Has(result, "nu") THEN BranchLambdaNu
  ELSE IF Has(result, "lambda") /\ Has(result, "K") THEN BranchLambdaK
  ELSE IF Has(result, "lambda") /\ Has(result, "E") THEN BranchQuadratic
  ELSE NoBranch

\* the if / else-if chain of the try block: the first branch whose pair is present
SelectBranch(result) ==
  IF Has(result, "lambda") /\ Has(result, "mu") THEN BranchLambdaMu
  ELSE IF Has(result, "E") /\ Has(result, "nu") THEN BranchENu
  ELSE IF Has(result, "mu") /\ Has(result, "nu") THEN BranchMuNu
  ELSE IF Has(result, "K") /\ Has(result, "nu") THEN BranchKNu
  ELSE IF Has(result, "K") /\ Has(result, "mu") THEN BranchKMu
  ELSE IF Has(result, "E") /\ Has(result, "mu") THEN BranchEMu
  ELSE IF Has(result, "E") /\ Has(result, "K") THEN BranchEK
  ELSE IF Has(result, "lambda") /\ Has(result, "nu") THEN BranchLambdaNu
  ELSE IF Has(result, "lambda") /\ Has(result, "K") THEN BranchLambdaK
  ELSE IF Has(result, "lambda") /\ Has(result, "E") THEN BranchQuadratic
  ELSE NoBranch

\* the body of the selected branch
RunBranch(acc, branch) ==
  IF branch = NoBranch THEN acc
  ELSE IF branch = BranchQuadratic THEN BranchLambdaE(acc)
  ELSE RunSteps(acc, branch, 1)

\* the try block: the selected branch, run on the normalised input
Dispatch(acc) == RunBranch(acc, SelectBranch(acc.parameters))

\* the count with hasRho among the counted flags
CountPresent_WithRho(rec) ==
  Cardinality({f \in Elastic \cup {"rho"} : Has(rec, f)})

\* the number of the five elastic parameters that are present
CountPresent(rec) == Cardinality({f \in Elastic : Has(rec, f)})

\* the call without its catch block: the Error leaves the call
TryCatch_NoCatch(acc) == acc

\* try { ... } catch (error) { warnings.push(`Calculation error: ...`) }:
\* whatever the try block threw is caught and becomes one warning
TryCatch(acc) ==
  IF acc.thrown = "" THEN acc
  ELSE [acc EXCEPT !.warnings = Append(@, CalculationError(acc.thrown)),
                   !.thrown = ""]

\* return { parameters: result, derivations, warnings }; raised tells that an
\* Error left the call, and then nothing was returned
ReturnResult(end) ==
  [parameters |-> end.parameters, derivations |-> end.derivations,
   warnings |-> end.warnings, raised |-> end.thrown # "", shared |-> end.shared]

\* "result = input": result is the caller's object itself
Spread_Alias(input) == [fields |-> input, shared |-> TRUE]

\* { ...input }: a new object with the fields of input; shared tells whether a
\* write to it is a write to the caller's object
Spread(input) == [fields |-> input, shared |-> FALSE]

\* the state of the call before the try block: result is the copy, normalised
StartCall(copy) ==
  [parameters |-> NormalizeG(copy.fields), derivations |-> <<>>,
   warnings |-> <<>>, thrown |-> "", shared |-> copy.shared]

\* the early return of fewer than two elastic parameters, or the try block
Resolved(start) ==
  IF CountPresent(start.parameters) < 2
  THEN [start EXCEPT !.warnings =
          Append(@, <<"Need at least 2 independent elastic parameters">>)]
  ELSE TryCatch(Dispatch(start))

calculateAllParameters(input) == ReturnResult(Resolved(StartCall(Spread(input))))

\* ------------------------------------------------------------ consistency

\* one inconsistency string: the field it names, the expected and the actual value
Finding(field, expected, actual) ==
  [field |-> field, expected |-> expected, actual |-> actual]

\* the relative error without its division
RelError_Absolute(expected, actual) == RAbs(RSub(expected, actual))

\* the error of one check: relative (divided by the supplied value as the code
\* divides, sign and zero included) or, for nu, absolute
RelError(expected, actual) == RDiv(RAbs(RSub(expected, actual)), actual)

AbsError(expected, actual) == RAbs(RSub(expected, actual))

\* the four checks in source order: the triple, the formula, the error measure
ConsistencyChecks == <<
  [field |-> "E", a |-> "lambda", b |-> "mu", fn |-> "E_from_lambda_mu", relative |-> TRUE],
  [field |-> "nu", a |-> "lambda", b |-> "mu", fn |-> "Nu_from_lambda_mu", relative |-> FALSE],
  [field |-> "mu", a |-> "E", b |-> "nu", fn |-> "Mu_from_E_nu", relative |-> TRUE],
  [field |-> "K", a |-> "mu", b |-> "nu", fn |-> "K_from_mu_nu", relative |-> TRUE]>>

\* the error of a check whose formula returned expected
CheckError(c, expected, actual) ==
  IF c.relative THEN RelError(expected, actual) ELSE AbsError(expected, actual)

\* one check on the outcome r of its formula call: checkConsistency has no try
\* block, so a throw of the formula function leaves it
Compare(acc, c, r, actual, tolerance) ==
  IF ~r.ok THEN [raised |-> TRUE, msg |-> r.msg, inconsistencies |-> <<>>]
  ELSE IF RGt(CheckError(c, r.val, actual), tolerance)
       THEN [acc EXCEPT !.inconsistencies = Append(@, Finding(c.field, r.val, actual))]
       ELSE acc

\* one check: skipped unless its three fields are all present
RunCheck(acc, params, tolerance, c) ==
  IF ~(Has(params, c.a) /\ Has(params, c.b) /\ Has(params, c.field)) THEN acc
  ELSE Compare(acc, c, Apply(c.fn, params[c.a], params[c.b]), params[c.field], tolerance)

RECURSIVE RunChecks(_, _, _, _)
RunChecks(acc, params, tolerance, i) ==
  IF i > Len(ConsistencyChecks) \/ acc.raised THEN acc
  ELSE RunChecks(RunCheck(acc, params, tolerance, ConsistencyChecks[i]),
                 params, tolerance, i + 1)

checkConsistency(params, tolerance) ==
  RunChecks([raised |-> FALSE, msg |-> "", inconsistencies |-> <<>>],
            params, tolerance, 1)

\* the default value of the tolerance parameter, 1e-6
DefaultTolerance == Norm(1, 1000000)

\* ------------------------------------------------------------- validators

Range(seq) == {seq[i] : i \in DOMAIN seq}

\* a ValidationError: its field, whether its message starts with "Warning", and
\* its message; null is NoError
ValidationError(field, warning, message) ==
  [field |-> field, warning |-> warning, message |-> message]

NoError == ValidationError("", FALSE, "")

NotFiniteNumber(x) == IsNaN(x) \/ ~IsFinite(x)

\* validatePoissonsRatio with "nu < -1 || nu > 0.5" for its range test
validatePoissonsRatio_Inclusive(nu) ==
  IF NotFiniteNumber(nu)
  THEN ValidationError("nu", FALSE, "Poisson's ratio must be a finite number")
  ELSE IF RLt(nu, I(-1)) \/ RGt(nu, Norm(1, 2))
  THEN ValidationError("nu", FALSE,
         "Poisson's ratio must be between -1 and 0.5 for stable isotropic materials")
  ELSE IF RLt(nu, I(0))
  THEN ValidationError("nu", TRUE, "Warning: Negative Poisson's ratio (auxetic material)")
  ELSE NoError

validatePoissonsRatio(nu) ==
  IF NotFiniteNumber(nu)
  THEN ValidationError("nu", FALSE, "Poisson's ratio must be a finite number")
  ELSE IF RLe(nu, I(-1)) \/ RGe(nu, Norm(1, 2))
  THEN ValidationError("nu", FALSE,
         "Poisson's ratio must be between -1 and 0.5 for stable isotropic materials")
  ELSE IF RLt(nu, I(0))
  THEN ValidationError("nu", TRUE, "Warning: Negative Poisson's ratio (auxetic material)")
  ELSE NoError

validateShearModulus(mu) ==
  IF NotFiniteNumber(mu)
  THEN ValidationError("mu", FALSE, "Shear modulus must be a finite number")
  ELSE IF RLe(mu, I(0))
  THEN ValidationError("mu", FALSE, "Shear modulus must be positive")
  ELSE NoError

\* validateBulkModulus with "K < 0" for its test
validateBulkModulus_NonNegative(K) ==
  IF NotFiniteNumber(K)
  THEN ValidationError("K", FALSE, "Bulk modulus must be a finite number")
  ELSE IF RLt(K, I(0))
  THEN ValidationError("K", FALSE, "Bulk modulus must be positive")
  ELSE NoError

validateBulkModulus(K) ==
  IF NotFiniteNumber(K)
  THEN ValidationError("K", FALSE, "Bulk modulus must be a finite number")
  ELSE IF RLe(K, I(0))
  THEN ValidationError("K", FALSE, "Bulk modulus must be positive")
  ELSE NoError

validateYoungsModulus(E) ==
  IF NotFiniteNumber(E)
  THEN ValidationError("E", FALSE, "Young's modulus must be a finite number")
  ELSE IF RLe(E, I(0))
  THEN ValidationError("E", FALSE, "Young's modulus must be positive")
  ELSE NoError

\* validateLameParameter that rejects a negative lambda as the moduli are
validateLameParameter_Hard(lambda) ==
  IF NotFiniteNumber(lambda)
  THEN ValidationError("lambda", FALSE, "Lame parameter lambda must be a finite number")
  ELSE IF RLt(lambda, I(0))
  THEN ValidationError("lambda", FALSE, "Lame parameter lambda must be positive")
  ELSE NoError

validateLameParameter(lambda) ==
  IF NotFiniteNumber(lambda)
  THEN ValidationError("lambda", FALSE, "Lame parameter lambda must be a finite number")
  ELSE IF RLt(lambda, I(0))
  THEN ValidationError("lambda", TRUE,
         "Warning: Negative lambda corresponds to negative Poisson's ratio")
  ELSE NoError

validateDensity(rho) ==
  IF NotFiniteNumber(rho)
  THEN ValidationError("rho", FALSE, "Density must be a finite number")
  ELSE IF RLe(rho, I(0))
  THEN ValidationError("rho", FALSE, "Density must be positive")
  ELSE NoError

\* the validator validateAllParameters applies to a field
Validate(f, v) ==
  CASE f = "lambda" -> validateLameParameter(v)
    [] f = "mu" -> validateShearModulus(v)
    [] f = "E" -> validateYoungsModulus(v)
    [] f = "K" -> validateBulkModulus(v)
    [] f = "nu" -> validatePoissonsRatio(v)
    [] f = "rho" -> validateDensity(v)

\* the fields validateAllParameters looks at, in the order it does
ValidatedFields == <<"lambda", "mu", "E", "K", "nu", "rho">>

\* "if (params.X !== undefined) { const error = validateX(params.X) ... }"
ValidateField(params, f) ==
  IF Has(params, f) THEN Validate(f, params[f]) ELSE NoError

IsError(e) == e # NoError

\* the errors array: "if (error) errors.push(error)" for each field in order
validateAllParameters(params) ==
  SelectSeq([i \in DOMAIN ValidatedFields |-> ValidateField(params, ValidatedFields[i])],
            IsError)

\* no parameters, and the result of no call
NoParameters == [f \in Fields |-> Undef]

NoResult ==
  [parameters |-> NoParameters, derivations |-> <<>>, warnings |-> <<>>,
   raised |-> FALSE, shared |-> FALSE]

\* ------------------------------------------------------ the calculator hook

\* "value: number | null": no value
Null == Undef

\* the order of the forEach over the six parameters
ParameterKeys == <<"lambda", "mu", "E", "K", "nu", "rho">>

\* the four moduli, the parameters that carry a unit of pressure
ModulusKeys == {"lambda", "mu", "E", "K"}

\* the units a field can select
Units == {"Pa", "kPa", "MPa", "GPa"}

\* 1e9
GIGA == 1000000000

\* one ParameterState
Parameter(value, unit, locked, userProvided) ==
  [value |-> value, unit |-> unit, locked |-> locked, userProvided |-> userProvided]

initialState ==
  [lambda |-> Parameter(Null, "Pa", FALSE, FALSE),
   mu |-> Parameter(Null, "Pa", FALSE, FALSE),
   E |-> Parameter(Null, "Pa", FALSE, FALSE),
   K |-> Parameter(Null, "Pa", FALSE, FALSE),
   nu |-> Parameter(Null, "Pa", FALSE, FALSE),
   rho |-> Parameter(Null, "Pa", FALSE, FALSE),
   derivations |-> <<>>, warnings |-> <<>>, errors |-> <<>>]

\* convertUnit: Pa to GPa and GPa to Pa are converted, every other pair of
\* units returns the value as it is
convertUnit(value, from, to) ==
  IF from = to THEN value
  ELSE IF from = "Pa" /\ to = "GPa" THEN RDiv(value, I(GIGA))
  ELSE IF from = "GPa" /\ to = "Pa" THEN RMul(value, I(GIGA))
  ELSE value

\* valueInPa of a collected parameter: nu and rho as they are
ValueInPa(key, param) ==
  IF key \in {"nu", "rho"} THEN param.value
  ELSE convertUnit(param.value, param.unit, "Pa")

\* CollectInputs that takes every value shown, user-provided or computed
CollectInputs_AnyValue(st) ==
  [f \in Fields |->
     IF f # "G" /\ st[f].value # Null
     THEN ValueInPa(f, st[f]) ELSE Undef]

\* inputParams: the values the user provided, in Pa
CollectInputs(st) ==
  [f \in Fields |->
     IF f # "G" /\ st[f].value # Null /\ st[f].userProvided
     THEN ValueInPa(f, st[f]) ELSE Undef]

\* Object.keys(inputParams).filter(k => k !== 'rho').length
ProvidedCount(inputParams) ==
  Cardinality({f \in Fields \ {"rho"} : Has(inputParams, f)})

\* what one run of recalculate did: which return it reached, the record it
\* collected, and what the validator, the consistency check and the resolver
\* returned to it
Outcome(kind, inputParams, validationErrors, inconsistencies, result) ==
  [kind |-> kind, inputParams |-> inputParams,
   validationErrors |-> validationErrors,
   inconsistencies |-> inconsistencies, result |-> result]

\* "const result = calculateAllParameters(inputParams)"
Calculate(inputParams) ==
  Outcome("resolved", inputParams, <<>>, <<>>, calculateAllParameters(inputParams))

\* AfterConsistency without its return: the resolver runs whatever was found
AfterConsistency_NoReturn(inputParams, found) ==
  IF found.raised
  THEN Outcome("threw", inputParams, <<>>, <<>>, NoResult)
  ELSE Calculate(inputParams)

\* "if (inconsistencies.length > 0) { ... return }"; an Error thrown by
\* checkConsistency leaves recalculate
AfterConsistency(inputParams, found) ==
  IF found.raised
  THEN Outcome("threw", inputParams, <<>>, <<>>, NoResult)
  ELSE IF Len(found.inconsistencies) > 0
  THEN Outcome("inconsistent", inputParams, <<>>, found.inconsistencies, NoResult)
  ELSE Calculate(inputParams)

\* AfterValidation without its return: the validation result is not looked at
AfterValidation_NoReturn(inputParams, validationErrors) ==
  IF ProvidedCount(inputParams) > 2
  THEN AfterConsistency(inputParams, checkConsistency(inputParams, DefaultTolerance))
  ELSE Calculate(inputParams)

\* "if (validationErrors.length > 0) { ... return }", then
\* "if (providedCount > 2)" the consistency check
AfterValidation(inputParams, validationErrors) ==
  IF Len(validationErrors) > 0
  THEN Outcome("invalid", inputParams, validationErrors, <<>>, NoResult)
  ELSE IF ProvidedCount(inputParams) > 2
  THEN AfterConsistency(inputParams, checkConsistency(inputParams, DefaultTolerance))
  ELSE Calculate(inputParams)

\* recalculate, up to its setState: st is the state its closure holds
recalculate(st) ==
  AfterValidation(CollectInputs(st), validateAllParameters(CollectInputs(st)))

\* e.suggestion of the two advisories
Suggestion(e) ==
  IF e.field = "nu" THEN "Rare but valid for certain engineered materials"
  ELSE "Valid but uncommon (auxetic materials)"

IsWarning(e) == e.warning

\* the entries of the errors list: a validation message, or the text of a
\* finding, which names the field, the expected and the supplied value
MessageText(e) == <<e.message>>

FindingText(f) == <<f.field, f.expected, f.actual>>

\* setState of the validation return: errors and warnings only
SetInvalid(prev, validationErrors) ==
  [prev EXCEPT
     !.errors = [i \in DOMAIN validationErrors |-> MessageText(validationErrors[i])],
     !.warnings = [i \in DOMAIN SelectSeq(validationErrors, IsWarning) |->
                     <<Suggestion(SelectSeq(validationErrors, IsWarning)[i])>>]]

\* setState of the consistency return: errors and warnings only
SetInconsistent(prev, inconsistencies) ==
  [prev EXCEPT
     !.errors = [i \in DOMAIN inconsistencies |-> FindingText(inconsistencies[i])],
     !.warnings = << <<"More than 2 parameters provided. Checking consistency...">> >>]

\* displayValue: nu as it is, a modulus in the unit of its field
DisplayValue(key, valueInPa, unit) ==
  IF key = "nu" THEN valueInPa ELSE convertUnit(valueInPa, "Pa", unit)

\* Written without the test of the locked flag
Written_IgnoreLock(key, param, parameters) ==
  IF key \in Elastic /\ Has(parameters, key)
  THEN [param EXCEPT !.value = DisplayValue(key, parameters[key], param.unit)]
  ELSE param

\* "if (result.parameters[key] !== undefined && !newState[key].locked)": the
\* field takes the computed value and keeps its unit and flags
Written(key, param, parameters) ==
  IF key \in Elastic /\ Has(parameters, key) /\ ~param.locked
  THEN [param EXCEPT !.value = DisplayValue(key, parameters[key], param.unit)]
  ELSE param

\* setState of the last return: computed values, trace, warnings, no errors
SetResolved(prev, result) ==
  [f \in DOMAIN prev |->
     CASE f = "derivations" -> result.derivations
       [] f = "warnings" -> result.warnings
       [] f = "errors" -> <<>>
       [] OTHER -> Written(f, prev[f], result.parameters)]

\* the state after the setState of a run of recalculate; a run that threw
\* set nothing
Updated(prev, out) ==
  CASE out.kind = "invalid" -> SetInvalid(prev, out.validationErrors)
    [] out.kind = "inconsistent" -> SetInconsistent(prev, out.inconsistencies)
    [] out.kind = "resolved" -> SetResolved(prev, out.result)
    [] OTHER -> prev

\* the updater of updateParameter
UpdatedParameter(prev, key, value) ==
  [prev EXCEPT ![key].value = value, ![key].userProvided = (value # Null)]

\* the updater of toggleLock
ToggledLock(prev, key) == [prev EXCEPT ![key].locked = ~prev[key].locked]

\* the updater of changeUnit: a modulus that has a value is converted
ChangedUnit(prev, key, newUnit) ==
  IF prev[key].value = Null \/ key = "nu" \/ key = "rho"
  THEN [prev EXCEPT ![key].unit = newUnit]
  ELSE [prev EXCEPT ![key].value = convertUnit(prev[key].value, prev[key].unit, newUnit),
                    ![key].unit = newUnit]

\* clearTimeout(id): the timer, if still pending, is cancelled
clearTimeout(pending, ids) == pending \ ids

\* debouncedRecalculate, called by the effect of the render of st:
\* "if (debounceTimer.current) clearTimeout(debounceTimer.current)", then
\* setTimeout(recalculate, DEBOUNCE_MS), recalculate being the one that closes
\* over st
debouncedRecalculate(pending, ref, st) == clearTimeout(pending, ref) \cup {st}

\* the effect after a render of a new state object: recalculate and
\* debouncedRecalculate are new functions, so the cleanup of the previous effect
\* runs, then the effect
Effect(pending, ref, st) == debouncedRecalculate(clearTimeout(pending, ref), ref, st)

\* ------------------------------------------------------------ the callers

VARIABLES
  input,   \* the MaterialParameters record a caller holds
  pc,      \* what the caller has done with it so far
  res,     \* the CalculationResult of calculateAllParameters(input)
  tol,     \* the tolerance passed to checkConsistency
  chk,     \* what checkConsistency did: raised or returned a list
  rt,      \* a second resolution, from two of the derived parameters
  fcall,   \* one call of a formula function: its name, arguments and outcome
  errs,    \* the ValidationError array of validateAllParameters(input)
  state,          \* the CalculatorState of the hook, as last set by setState
  timers,         \* the pending setTimeout callbacks: the state each closes over
  debounceTimer,  \* debounceTimer.current: the timer last set, none before the first
  last,           \* what recalculate did, if it ran after the user's last call
  actions,        \* the number of calls the user has made
  again           \* recalculate ran more than once since the user's last call

callerVars == <<input, pc, res, tol, chk, rt, fcall, errs>>

hookVars == <<state, timers, debounceTimer, last, actions, again>>

vars == <<input, pc, res, tol, chk, rt, fcall, errs,
          state, timers, debounceTimer, last, actions, again>>

\* no run of recalculate yet
NoRun ==
  [closure |-> initialState, prev |-> initialState,
   out |-> Outcome("", NoParameters, <<>>, <<>>, NoResult)]

\* the hook is not in use
NotMounted ==
  /\ state = initialState
  /\ timers = {}
  /\ debounceTimer = {}
  /\ last = NoRun
  /\ actions = 0
  /\ again = FALSE

Moduli == {I(n) : n \in -NegModulus..MaxModulus}

NuValues == {Norm(n, NuSteps) : n \in -NuSteps..NuSteps}

RhoValues == {I(7850)}

GValues == {I(1)}

Tolerances == {DefaultTolerance, Norm(1, 2)}

Opt(S) == S \cup {Undef}

InputRecords ==
  [lambda : Opt(Moduli), mu : Opt(Moduli), E : Opt(Moduli), K : Opt(Moduli),
   nu : Opt(NuValues), rho : Opt(RhoValues), G : Opt(GValues)]

NoCheck == [raised |-> FALSE, msg |-> "", inconsistencies |-> <<>>]

NoRoundTrip == [from |-> {}, back |-> NoResult]

NoCall == [fn |-> "", a |-> NaN, b |-> NaN, out |-> Throw("")]

\* the (lambda, E) branch is the one reached
ReachesLambdaE(rec) ==
  LET r == NormalizeG(rec)
  IN {f \in Elastic : Has(r, f)} = {"lambda", "E"}

\* Math.sqrt is modelled on rational roots only: the records whose (lambda, E)
\* discriminant, when the branch is reached, is negative or has one
Representable(rec) ==
  ReachesLambdaE(rec) =>
    \/ RLt(Discriminant(rec["lambda"], rec["E"]), I(0))
    \/ HasExactSqrt(Discriminant(rec["lambda"], rec["E"]))

Init ==
  /\ input \in InputRecords
  /\ Cardinality({f \in Elastic : Has(input, f)}) <= MaxPresent
  /\ Representable(input)
  /\ pc = "start"
  /\ res = NoResult
  /\ tol = DefaultTolerance
  /\ chk = NoCheck
  /\ rt = NoRoundTrip
  /\ fcall = NoCall
  /\ errs = <<>>
  /\ NotMounted

\* a caller resolves its record
\* the caller's record after a call that returned out: the writes to result
\* are writes to it when result is the caller's object
CallerRecord(rec, out) == IF out.shared THEN out.parameters ELSE rec

Resolve ==
  /\ pc = "start"
  /\ res' = calculateAllParameters(input)
  /\ input' = CallerRecord(input, res')
  /\ pc' = "resolved"
  /\ UNCHANGED <<tol, chk, rt, fcall, errs>>
  /\ UNCHANGED hookVars

\* a caller checks its record with a tolerance of its choice
Check ==
  /\ pc = "start"
  /\ \E t \in Tolerances :
       /\ tol' = t
       /\ chk' = checkConsistency(input, t)
  /\ pc' = "checked"
  /\ UNCHANGED <<input, res, rt, fcall, errs>>
  /\ UNCHANGED hookVars

\* a caller feeds the parameters of one resolution to checkConsistency,
\* with the default tolerance
CheckResolved ==
  /\ pc = "resolved"
  /\ ~res.raised
  /\ chk' = checkConsistency(res.parameters, DefaultTolerance)
  /\ pc' = "rechecked"
  /\ UNCHANGED <<input, res, tol, rt, fcall, errs>>
  /\ UNCHANGED hookVars

\* the record that holds the fields of `from` of rec and nothing else
Only(rec, from) == [f \in Fields |-> IF f \in from THEN rec[f] ELSE Undef]

\* the fields calculateAllParameters assigned
Derived(in, out) == {f \in Elastic : ~Has(NormalizeG(in), f) /\ Has(out, f)}

\* a caller that resolved a pair resolves again from two of the three derived
\* parameters
RoundTrip ==
  /\ pc = "resolved"
  /\ ~res.raised
  /\ CountPresent(input) = 2
  /\ input["G"] = Undef
  /\ \E q \in SUBSET Derived(input, res.parameters) :
       /\ Cardinality(q) = 2
       /\ Representable(Only(res.parameters, q))
       /\ rt' = [from |-> q,
                 back |-> calculateAllParameters(Only(res.parameters, q))]
  /\ pc' = "roundtrip"
  /\ UNCHANGED <<input, res, tol, chk, fcall, errs>>
  /\ UNCHANGED hookVars

\* a caller validates its record; validateAllParameters only reads it
ValidateAll ==
  /\ pc = "start"
  /\ errs' = validateAllParameters(input)
  /\ pc' = "validated"
  /\ UNCHANGED <<input, res, tol, chk, rt, fcall>>
  /\ UNCHANGED hookVars

Next == Resolve \/ Check \/ CheckResolved \/ RoundTrip \/ ValidateAll

Spec == Init /\ [][Next]_vars

\* ---- the callers of the formula library

FormulaNames == {
  "E_from_lambda_mu", "Nu_from_lambda_mu", "K_from_lambda_mu",
  "Mu_from_E_nu", "Lambda_from_E_nu", "K_from_E_nu",
  "E_from_mu_nu", "Lambda_from_mu_nu", "K_from_mu_nu",
  "E_from_K_nu", "Mu_from_K_nu", "Lambda_from_K_nu",
  "E_from_K_mu", "Nu_from_K_mu", "Lambda_from_K_mu",
  "Nu_from_E_mu", "K_from_E_mu", "Lambda_from_E_mu",
  "Mu_from_E_K", "Nu_from_E_K", "Lambda_from_E_K",
  "E_from_lambda_nu", "Mu_from_lambda_nu", "K_from_lambda_nu",
  "E_from_lambda_K", "Mu_from_lambda_K", "Nu_from_lambda_K"}

\* the finite numbers a formula function is called with
FormulaArgs == Moduli \cup NuValues

InitFormula ==
  /\ input = NoParameters
  /\ pc = "start"
  /\ res = NoResult
  /\ tol = DefaultTolerance
  /\ chk = NoCheck
  /\ rt = NoRoundTrip
  /\ errs = <<>>
  /\ NotMounted
  /\ \E x \in FormulaArgs, y \in FormulaArgs :
       fcall = [fn |-> "", a |-> x, b |-> y, out |-> Throw("")]

\* a caller calls one formula function with its two numbers
CallFormula ==
  /\ pc = "start"
  /\ \E fn \in FormulaNames :
       fcall' = [fcall EXCEPT !.fn = fn, !.out = Apply(fn, fcall.a, fcall.b)]
  /\ pc' = "called"
  /\ UNCHANGED <<input, res, tol, chk, rt, errs>>
  /\ UNCHANGED hookVars

NextFormula == CallFormula

SpecFormula == InitFormula /\ [][NextFormula]_vars

\* ---- the callers whose record has any number of fields present

DenseModuli == {I(n) : n \in 0..DenseModulus}

DenseNu == {I(0), Norm(1, 4), Norm(1, 2)}

DenseRecords ==
  [lambda : Opt(DenseModuli), mu : Opt(DenseModuli), E : Opt(DenseModuli),
   K : Opt(DenseModuli), nu : Opt(DenseNu), rho : Opt(RhoValues),
   G : Opt(DenseModuli)]

InitDense ==
  /\ input \in DenseRecords
  /\ Representable(input)
  /\ pc = "start"
  /\ res = NoResult
  /\ tol = DefaultTolerance
  /\ chk = NoCheck
  /\ rt = NoRoundTrip
  /\ fcall = NoCall
  /\ errs = <<>>
  /\ NotMounted

SpecDense == InitDense /\ [][Next]_vars

\* ---- the callers of the validators

\* the numbers a validator is called with: the finite ones, NaN and the infinities
ValidatorArgs == Moduli \cup NuValues \cup {NaN, PosInf, NegInf}

InitValidate ==
  /\ \E f \in Range(ValidatedFields), v \in ValidatorArgs :
       input = [NoParameters EXCEPT ![f] = v]
  /\ pc = "start"
  /\ res = NoResult
  /\ tol = DefaultTolerance
  /\ chk = NoCheck
  /\ rt = NoRoundTrip
  /\ fcall = NoCall
  /\ errs = <<>>
  /\ NotMounted

NextValidate == ValidateAll

SpecValidate == InitValidate /\ [][NextValidate]_vars

\* ---- the calculator hook in use

\* the values a user types into the field of a modulus, of nu and of rho
UserValues(key) ==
  CASE key = "lambda" -> {I(-1), I(0), I(1)}
    [] key = "mu" -> {I(-1), I(1)}
    [] key \in {"E", "K"} -> {I(1)}
    [] key = "nu" -> {Norm(-1, 4), Norm(1, 4)}
    [] key = "rho" -> {I(1)}

\* the numbers of the model are fractions of 32-bit integers: a field in GPa
\* holds a typed number of pascals shown in GPa, a user-provided field in
\* another unit holds a typed number, and Math.sqrt has a rational root
Modelled(st) ==
  /\ \A key \in ModulusKeys :
       IF st[key].unit = "GPa"
       THEN /\ st[key].userProvided
            /\ st[key].value \in {RDiv(v, I(GIGA)) : v \in UserValues(key)}
       ELSE st[key].userProvided => st[key].value \in UserValues(key)
  /\ Representable(CollectInputs(st))

\* the value of the field can be converted within those numbers
Showable(param, newUnit) ==
  (newUnit = "GPa" /\ param.unit = "Pa") => (param.value = Null \/ param.userProvided)

\* the component is mounted: the first render ran the effect once
InitHook ==
  /\ input = NoParameters
  /\ pc = "hook"
  /\ res = NoResult
  /\ tol = DefaultTolerance
  /\ chk = NoCheck
  /\ rt = NoRoundTrip
  /\ fcall = NoCall
  /\ errs = <<>>
  /\ state = initialState
  /\ timers = Effect({}, {}, initialState)
  /\ debounceTimer = {initialState}
  /\ last = NoRun
  /\ actions = 0
  /\ again = FALSE

\* setState(st) is followed by the render of st and by its effect, before any
\* timer can fire
Commit(pending, st) ==
  /\ state' = st
  /\ timers' = Effect(pending, debounceTimer, st)
  /\ debounceTimer' = {st}

\* a call by the user that sets the state to st
UserCall(st) ==
  /\ actions < MaxActions
  /\ Modelled(st)
  /\ Commit(timers, st)
  /\ actions' = actions + 1
  /\ last' = NoRun
  /\ again' = FALSE
  /\ UNCHANGED callerVars

updateParameter ==
  \E key \in Range(ParameterKeys) :
    \E value \in UserValues(key) \cup {Null} :
      UserCall(UpdatedParameter(state, key, value))

toggleLock ==
  \E key \in Range(ParameterKeys) : UserCall(ToggledLock(state, key))

\* the unit selector is rendered for the four moduli
changeUnit ==
  \E key \in ModulusKeys :
    \E newUnit \in Units :
      /\ Showable(state[key], newUnit)
      /\ UserCall(ChangedUnit(state, key, newUnit))

\* the timer whose callback closes over t fired, and its recalculate did out
Run(t, out) ==
  /\ last' = [closure |-> t, prev |-> state, out |-> out]
  /\ again' = (last # NoRun)
  /\ IF out.kind = "threw"
     THEN /\ timers' = timers \ {t}
          /\ UNCHANGED <<state, debounceTimer>>
     ELSE Commit(timers \ {t}, Updated(state, out))
  /\ UNCHANGED actions
  /\ UNCHANGED callerVars

\* DEBOUNCE_MS after it was set, a pending timer calls its recalculate
TimerFires == \E t \in timers : Run(t, recalculate(t))

NextHook == updateParameter \/ toggleLock \/ changeUnit \/ TimerFires

SpecHook == InitHook /\ [][NextHook]_vars

\* ================================================================ claims

\* the record the resolver works on: the caller's, with G read as mu
Given == NormalizeG(input)

\* the precedence order of the ten pairs
PairOrder == <<
  <<"lambda", "mu">>, <<"E", "nu">>, <<"mu", "nu">>, <<"K", "nu">>,
  <<"K", "mu">>, <<"E", "mu">>, <<"E", "K">>, <<"lambda", "nu">>,
  <<"lambda", "K">>, <<"lambda", "E">> >>

\* the branch bodies of the first nine pairs, in that order
BranchTable == <<
  BranchLambdaMu, BranchENu, BranchMuNu, BranchKNu, BranchKMu, BranchEMu,
  BranchEK, BranchLambdaNu, BranchLambdaK>>

BothPresent(rec, p) == Has(rec, p[1]) /\ Has(rec, p[2])

\* the index in PairOrder of the first pair whose two fields are present
FirstPair(rec) ==
  CHOOSE i \in 1..Len(PairOrder) :
    /\ BothPresent(rec, PairOrder[i])
    /\ \A j \in 1..(i - 1) : ~BothPresent(rec, PairOrder[j])

QuadraticTrace == "mu from quadratic: 2mu^2 + mu(3lambda - E) - E lambda = 0"

\* mu is a root of 2mu^2 + mu(3lambda - E) - E lambda = 0
IsRoot(mu, lambda, E) ==
  RAdd(RAdd(RMul(I(2), RMul(mu, mu)),
            RMul(mu, RSub(RMul(I(3), lambda), E))),
       RNeg(RMul(E, lambda))) = I(0)

\* C1, for the nine pairs with formula functions: every trace entry is one of
\* the pair's, and every assigned field is a target of the pair and holds the
\* pair's formula applied to the pair's two supplied values
C1_TableBranch(i) ==
  LET br == BranchTable[i]
      p == PairOrder[i]
      steps == Range(br.steps)
  IN /\ p = <<br.a, br.b>>
     /\ Range(res.derivations) \subseteq {s.deriv : s \in steps}
     /\ Derived(input, res.parameters) \subseteq {s.target : s \in steps}
     /\ \A s \in steps :
          s.target \in Derived(input, res.parameters) =>
            /\ res.parameters[s.target] = Apply(s.fn, Given[p[1]], Given[p[2]]).val
            /\ s.deriv \in Range(res.derivations)

\* C1, for (lambda, E): mu is a root of the quadratic in the two supplied values,
\* nu and K come from lambda and that mu
C1_QuadraticBranch ==
  LET out == res.parameters
      got == Derived(input, out)
  IN /\ Range(res.derivations) \subseteq
          {QuadraticTrace} \cup {s.deriv : s \in Range(BranchLambdaETail.steps)}
     /\ got \subseteq {"mu", "nu", "K"}
     /\ "mu" \in got => IsRoot(out["mu"], Given["lambda"], Given["E"])
     /\ "nu" \in got =>
          out["nu"] = calculateNu_from_lambda_mu(Given["lambda"], out["mu"]).val
     /\ "K" \in got =>
          out["K"] = calculateK_from_lambda_mu(Given["lambda"], out["mu"]).val

\* C1: with at least two of the five parameters present, calculateAllParameters
\* runs the formulas of exactly one branch, that of the first pair in the
\* precedence order whose two fields are present, and every value it computes
\* comes from that pair's two fields, also when later pairs are present too.
C1_FirstMatchingPairOnly ==
  (pc = "resolved" /\ CountPresent(Given) >= 2) =>
    LET i == FirstPair(Given)
    IN IF i <= Len(BranchTable) THEN C1_TableBranch(i) ELSE C1_QuadraticBranch

\* a record that satisfies three pairs was resolved by the first of them
C1_Witness ==
  /\ pc = "resolved"
  /\ {f \in Elastic : Has(Given, f)} = {"E", "mu", "nu"}
  /\ res.derivations = <<"lambda = E nu / ((1 + nu)(1 - 2nu))", "K = E / (3(1 - 2nu))">>
  /\ calculateLambda_from_mu_nu(Given["mu"], Given["nu"]).val # res.parameters["lambda"]

\* C2: every one of the five parameters that the input supplies has the same
\* value in the returned parameters; only absent fields are assigned, also when
\* a supplied value contradicts what the chosen pair implies.
C2_SuppliedFieldsKept ==
  pc = "resolved" =>
    \A f \in Elastic : Has(input, f) => res.parameters[f] = input[f]

\* lambda, mu and a contradicting E were supplied, the branch ran and E was kept
C2_Witness ==
  /\ pc = "resolved"
  /\ Has(input, "lambda") /\ Has(input, "mu") /\ Has(input, "E")
  /\ calculateE_from_lambda_mu(input["lambda"], input["mu"]).ok
  /\ calculateE_from_lambda_mu(input["lambda"], input["mu"]).val # input["E"]
  /\ Len(res.derivations) = 2
  /\ res.parameters["E"] = input["E"]

AllFive(rec) == \A f \in Elastic : Has(rec, f)

\* C3 as stated: at least two parameters present and no warning returned imply
\* that all five parameters are defined in the result, for every pair.
C3_NoWarningAllDefined ==
  (pc = "resolved" /\ CountPresent(Given) >= 2 /\ res.warnings = <<>>) =>
    AllFive(res.parameters)

\* C3 as amended: at least two parameters present and no warning returned imply
\* that all five are defined, except when the (lambda, E) branch selected a mu that
\* is not strictly positive: then mu is set and nu and K stay unset, unwarned.
C3_NoWarningAllDefinedUnlessMuNotPositive ==
  (pc = "resolved" /\ CountPresent(Given) >= 2 /\ res.warnings = <<>>) =>
    \/ AllFive(res.parameters)
    \/ /\ FirstPair(Given) = Len(PairOrder)
       /\ Has(res.parameters, "mu")
       /\ ~RGt(res.parameters["mu"], I(0))
       /\ ~Has(res.parameters, "nu")
       /\ ~Has(res.parameters, "K")

\* (lambda, E) was resolved to a positive mu and all five are defined
C3_Witness ==
  /\ pc = "resolved"
  /\ {f \in Elastic : Has(Given, f)} = {"lambda", "E"}
  /\ res.warnings = <<>>
  /\ RGt(res.parameters["mu"], I(0))
  /\ AllFive(res.parameters)

\* the first step of a branch that calls its formula (target absent) and throws;
\* 0 when none does
FailingStep(rec, br) ==
  LET bad == {k \in DOMAIN br.steps :
                /\ ~Has(rec, br.steps[k].target)
                /\ ~Apply(br.steps[k].fn, rec[br.a], rec[br.b]).ok}
  IN IF bad = {} THEN 0 ELSE CHOOSE k \in bad : \A m \in bad : k <= m

\* the trace of the steps before the k-th that called their formula
RECURSIVE TraceBefore(_, _, _)
TraceBefore(rec, br, k) ==
  IF k <= 1 THEN <<>>
  ELSE LET s == br.steps[k - 1]
       IN IF Has(rec, s.target) THEN TraceBefore(rec, br, k - 1)
          ELSE Append(TraceBefore(rec, br, k - 1), s.deriv)

\* C4: calculateAllParameters never raises. When a formula of the chosen branch
\* raises a division by zero, the call returns exactly one warning carrying the
\* error's message; the fields assigned before the failing formula keep their
\* computed values and trace entries; the failing field and the later fields of
\* the branch are not assigned (they stay as the input had them: unset).
C4_ErrorBecomesWarning ==
  pc = "resolved" =>
    /\ ~res.raised
    /\ (CountPresent(Given) >= 2 /\ FirstPair(Given) <= Len(BranchTable)) =>
         LET br == BranchTable[FirstPair(Given)]
             k == FailingStep(Given, br)
         IN k > 0 =>
              /\ res.warnings =
                   <<CalculationError(
                       Apply(br.steps[k].fn, Given[br.a], Given[br.b]).msg)>>
              /\ res.derivations = TraceBefore(Given, br, k)
              /\ ~Has(res.parameters, br.steps[k].target)
              /\ \A m \in DOMAIN br.steps :
                   LET s == br.steps[m]
                   IN IF m < k /\ ~Has(Given, s.target)
                      THEN res.parameters[s.target] =
                             Apply(s.fn, Given[br.a], Given[br.b]).val
                      ELSE res.parameters[s.target] = Given[s.target]

\* (E, nu) with nu = 1/2: mu was computed, lambda threw, K was never tried
C4_Witness ==
  /\ pc = "resolved"
  /\ {f \in Elastic : Has(Given, f)} = {"E", "nu"}
  /\ res.derivations = <<"mu = E / (2(1 + nu))">>
  /\ res.warnings = <<CalculationError("Division by zero: (1 + nu)(1 - 2nu) ~ 0")>>
  /\ Has(res.parameters, "mu")
  /\ ~Has(res.parameters, "lambda")
  /\ ~Has(res.parameters, "K")

\* C5: checkConsistency returns a list for every record, denominators that are
\* zero included; no failure of the formula library escapes it.
C5_CheckNeverRaises ==
  pc = "checked" => ~chk.raised

\* C6: with fewer than two of the five parameters present (G standing for mu),
\* calculateAllParameters returns the input record unchanged, the one warning
\* that two independent parameters are needed, and no derivation.
C6_InsufficientInputUnchanged ==
  (pc = "resolved" /\ CountPresent(Given) < 2) =>
    /\ res.parameters = input
    /\ res.warnings = <<<<"Need at least 2 independent elastic parameters">>>>
    /\ res.derivations = <<>>

\* the relative error of expected against the supplied value exceeds tolerance:
\* |expected - actual| / |actual| > tolerance
Mismatch(expected, actual, tolerance) ==
  RGt(RDiv(RAbs(RSub(expected, actual)), RAbs(actual)), tolerance)

\* C7: for each of the four checks, when its three fields are supplied and the
\* recomputed value differs from the supplied one by a relative error above the
\* tolerance, the result has a finding naming the field with the expected and
\* the actual value, whatever the sign and magnitude of the values.
C7_MismatchReported ==
  (pc = "checked" /\ ~chk.raised) =>
    \A c \in Range(ConsistencyChecks) :
      (/\ Has(input, c.a) /\ Has(input, c.b) /\ Has(input, c.field)
       /\ Apply(c.fn, input[c.a], input[c.b]).ok
       /\ Mismatch(Apply(c.fn, input[c.a], input[c.b]).val, input[c.field], tol))
      => Finding(c.field, Apply(c.fn, input[c.a], input[c.b]).val, input[c.field])
           \in Range(chk.inconsistencies)

\* no hard violation: the validator of the field returns null or an advisory
Passes(f, v) == Validate(f, v) = NoError \/ Validate(f, v).warning

\* a material inside the admissible domain: all five parameters are defined and
\* none is a hard violation of its validator
Admissible(rec) == AllFive(rec) /\ \A f \in Elastic : Passes(f, rec[f])

\* C8: for every physically valid input pair (the material it resolves to lies
\* inside the admissible domain), checkConsistency with the default tolerance
\* returns no finding on the parameters one calculateAllParameters call returned.
C8_ResolvedIsConsistent ==
  (pc = "rechecked" /\ CountPresent(Given) = 2 /\ Admissible(res.parameters)) =>
    /\ ~chk.raised
    /\ chk.inconsistencies = <<>>

\* an admissible pair was resolved to five values and all four checks passed
C8_Witness ==
  /\ pc = "rechecked"
  /\ {f \in Elastic : Has(Given, f)} = {"lambda", "mu"}
  /\ Len(res.derivations) = 3
  /\ Admissible(res.parameters)
  /\ ~chk.raised
  /\ chk.inconsistencies = <<>>

\* the second resolution reproduced the two original parameters
Reproduced ==
  \A f \in Elastic : Has(input, f) => rt.back.parameters[f] = input[f]

\* C9 as stated: for every valid pair, resolving it and then resolving any two of
\* the three derived parameters again reproduces the two original values.
C9_RoundTrip ==
  (pc = "roundtrip" /\ Admissible(res.parameters)) => Reproduced

\* the derived pair is (lambda, nu) = (0, 0), from which nothing can be computed
DegenerateLambdaNu ==
  /\ rt.from = {"lambda", "nu"}
  /\ res.parameters["nu"] = I(0)

\* C9 as amended: the round trip reproduces the two original values, except
\* through the derived pair (lambda, nu) when nu = 0 (then lambda = 0 too): the
\* (lambda, nu) formulas divide by nu, raise, and reproduce nothing.
C9_RoundTripUnlessNuZero ==
  (pc = "roundtrip" /\ Admissible(res.parameters)) =>
    IF DegenerateLambdaNu
    THEN /\ rt.back.warnings = <<CalculationError("Division by zero: nu ~ 0")>>
         /\ \A f \in Elastic : Has(input, f) => ~Has(rt.back.parameters, f)
    ELSE Reproduced

\* (E, nu) was resolved and then recovered from the derived (lambda, K), both by
\* formulas that divide
C9_Witness ==
  /\ pc = "roundtrip"
  /\ {f \in Elastic : Has(input, f)} = {"E", "nu"}
  /\ rt.from = {"lambda", "K"}
  /\ Admissible(res.parameters)
  /\ res.parameters["lambda"] # I(0)
  /\ Len(rt.back.derivations) = 3
  /\ Reproduced

\* the denominator of the closed form of each formula function that divides
Denominator(fn, a, b) ==
  CASE fn \in {"E_from_lambda_mu"} -> RAdd(a, b)
    [] fn \in {"Nu_from_lambda_mu"} -> RMul(I(2), RAdd(a, b))
    [] fn \in {"Mu_from_E_nu", "Mu_from_K_nu"} -> RMul(I(2), RAdd(I(1), b))
    [] fn \in {"Lambda_from_E_nu"} ->
         RMul(RAdd(I(1), b), RSub(I(1), RMul(I(2), b)))
    [] fn \in {"K_from_E_nu", "K_from_mu_nu"} ->
         RMul(I(3), RSub(I(1), RMul(I(2), b)))
    [] fn \in {"Lambda_from_mu_nu"} -> RSub(I(1), RMul(I(2), b))
    [] fn \in {"Lambda_from_K_nu"} -> RAdd(I(1), b)
    [] fn \in {"E_from_K_mu"} -> RAdd(RMul(I(3), a), b)
    [] fn \in {"Nu_from_K_mu"} -> RAdd(RMul(I(6), a), RMul(I(2), b))
    [] fn \in {"Nu_from_E_mu"} -> RMul(I(2), b)
    [] fn \in {"K_from_E_mu"} -> RMul(I(3), RSub(RMul(I(3), b), a))
    [] fn \in {"Lambda_from_E_mu"} -> RSub(RMul(I(3), b), a)
    [] fn \in {"Mu_from_E_K", "Lambda_from_E_K"} -> RSub(RMul(I(9), b), a)
    [] fn \in {"Nu_from_E_K"} -> RMul(I(6), b)
    [] fn \in {"E_from_lambda_nu"} -> b
    [] fn \in {"Mu_from_lambda_nu"} -> RMul(I(2), b)
    [] fn \in {"K_from_lambda_nu"} -> RMul(I(3), b)
    [] fn \in {"E_from_lambda_K", "Nu_from_lambda_K"} -> RSub(RMul(I(3), b), a)
    [] OTHER -> I(1)

\* C10: every formula function that divides raises whenever its denominator is
\* zero (below 1e-12 in absolute value), for all finite arguments; none returns
\* Infinity or NaN.
C10_ZeroDenominatorRaises ==
  pc = "called" =>
    /\ LtEpsilon(RAbs(Denominator(fcall.fn, fcall.a, fcall.b))) => ~fcall.out.ok
    /\ fcall.out.ok => IsFinite(fcall.out.val)

\* calculateE_from_lambda_mu(lambda, -lambda) raised, for a lambda that is not 0
C10_Witness ==
  /\ pc = "called"
  /\ fcall.fn = "E_from_lambda_mu"
  /\ fcall.a # I(0)
  /\ fcall.b = RNeg(fcall.a)
  /\ ~fcall.out.ok
  /\ fcall.out.msg = "Division by zero: lambda + mu ~ 0"

\* the assignments of the branch of the i-th pair, in the order it makes them
TraceOrder(i) ==
  IF i <= Len(BranchTable) THEN BranchTable[i].steps
  ELSE <<Step("mu", "quadratic", QuadraticTrace)>> \o BranchLambdaETail.steps

\* the trace entries of the assignments of order whose target is in got
TraceOf(order, got) ==
  LET kept == SelectSeq(order, LAMBDA s : s.target \in got)
  IN [k \in DOMAIN kept |-> kept[k].deriv]

\* C11: the derivations returned hold exactly one entry per field the call
\* assigned, in the branch's order of assignment; a field already present adds
\* none, so a call that raised nothing returns 3 entries for {lambda, mu} and 1
\* entry for a record with four of the five parameters.
C11_TraceMatchesAssignments ==
  pc = "resolved" =>
    /\ res.derivations =
         IF CountPresent(Given) < 2 THEN <<>>
         ELSE TraceOf(TraceOrder(FirstPair(Given)), Derived(input, res.parameters))
    /\ ({f \in Elastic : Has(Given, f)} = {"lambda", "mu"} /\ res.warnings = <<>>)
         => Len(res.derivations) = 3
    /\ (CountPresent(Given) = 4 /\ res.warnings = <<>>)
         => Len(res.derivations) = 1

\* four of the five were supplied and the one missing was computed and logged
C11_Witness ==
  /\ pc = "resolved"
  /\ CountPresent(Given) = 4
  /\ res.warnings = <<>>
  /\ Cardinality(Derived(input, res.parameters)) = 1
  /\ Len(res.derivations) = 1

\* the five elastic parameters of a record
ElasticPart(rec) == [f \in Elastic |-> rec[f]]

\* the elastic parameters, trace and warnings of two results are the same
SameResolution(x, y) ==
  /\ ElasticPart(x.parameters) = ElasticPart(y.parameters)
  /\ x.derivations = y.derivations
  /\ x.warnings = y.warnings

\* densities a caller could have supplied instead
RhoAlternatives == {Undef, I(1), I(7850)}

\* C12: the rho of the returned parameters is the input's rho (absent stays
\* absent); rho is not counted as one of the two independent parameters, and the
\* five elastic parameters, the trace and the warnings returned are the same
\* whatever rho is.
C12_RhoPassedThrough ==
  pc = "resolved" =>
    /\ res.parameters["rho"] = input["rho"]
    /\ Cardinality({f \in Elastic : Has(Given, f)}) < 2 =>
         res.warnings = <<<<"Need at least 2 independent elastic parameters">>>>
    /\ \A r \in RhoAlternatives :
         SameResolution(res, calculateAllParameters([input EXCEPT !["rho"] = r]))

\* a record with a density and one elastic parameter was not resolved
C12_Witness ==
  /\ pc = "resolved"
  /\ Has(input, "rho")
  /\ Cardinality({f \in Elastic : Has(Given, f)}) = 1
  /\ res.parameters["rho"] = input["rho"]
  /\ res.derivations = <<>>
  /\ res.warnings # <<>>

\* C13: calculateAllParameters, checkConsistency and validateAllParameters leave
\* the record they are given as it was, on every path (insufficient input,
\* success, caught error), and the parameters returned are another record.
C13_InputNeverModified ==
  [][input' = input /\ ~res'.shared]_vars

\* the call filled its own record: the caller's still lacks what was computed
C13_Witness ==
  /\ pc = "resolved"
  /\ ~res.shared
  /\ CountPresent(input) = 2
  /\ AllFive(res.parameters)
  /\ res.parameters # input

\* the (lambda, E) branch ran on the two supplied values and selected a mu
SelectedMu ==
  /\ pc = "resolved"
  /\ {f \in Elastic : Has(Given, f)} = {"lambda", "E"}
  /\ Has(res.parameters, "mu")

\* C14: in the (lambda, E) branch, nu and K are computed, from lambda and the
\* selected mu with the (lambda, mu) identities, if and only if the selected mu
\* is strictly positive; for a selected mu that is zero or negative nu and K stay
\* unset and the trace holds the entry of mu alone.
C14_NuKOnlyForPositiveMu ==
  SelectedMu =>
    IF RGt(res.parameters["mu"], I(0))
    THEN /\ res.parameters["nu"] =
              calculateNu_from_lambda_mu(Given["lambda"], res.parameters["mu"]).val
         /\ res.parameters["K"] =
              calculateK_from_lambda_mu(Given["lambda"], res.parameters["mu"]).val
         /\ Has(res.parameters, "nu") /\ Has(res.parameters, "K")
         /\ res.derivations = <<QuadraticTrace, "nu = lambda / (2(lambda + mu))",
                                "K = lambda + (2/3)mu">>
    ELSE /\ ~Has(res.parameters, "nu")
         /\ ~Has(res.parameters, "K")
         /\ res.derivations = <<QuadraticTrace>>
         /\ res.warnings = <<>>

\* lambda = E = 0 selected mu = 0: nu and K were not computed
C14_Witness ==
  /\ SelectedMu
  /\ res.parameters["mu"] = I(0)
  /\ ~Has(res.parameters, "nu")
  /\ ~Has(res.parameters, "K")
  /\ res.derivations = <<QuadraticTrace>>

\* the record with the shear modulus of G supplied as mu instead
GAsMu(rec) == [rec EXCEPT !["mu"] = rec["G"], !["G"] = Undef]

\* the record without its G
WithoutG(rec) == [rec EXCEPT !["G"] = Undef]

\* C16: a shear modulus supplied as G is treated as mu when mu is absent: the
\* call computes the same lambda, mu, E, K, nu as for the record with mu = G, and
\* G counts as one of the two independent parameters; with both mu and G
\* supplied, mu is used and G is ignored.
C16_GIsMu ==
  (pc = "resolved" /\ Has(input, "G")) =>
    IF ~Has(input, "mu")
    THEN /\ res.parameters["mu"] = input["G"]
         /\ SameResolution(res, calculateAllParameters(GAsMu(input)))
         /\ CountPresent(input) = 1 =>
              <<"Need at least 2 independent elastic parameters">> \notin Range(res.warnings)
    ELSE /\ res.parameters["mu"] = input["mu"]
         /\ SameResolution(res, calculateAllParameters(WithoutG(input)))

\* {G, E} was resolved to all five, with mu = G
C16_Witness ==
  /\ pc = "resolved"
  /\ {f \in Fields : Has(input, f)} = {"G", "E"}
  /\ AllFive(res.parameters)
  /\ res.parameters["mu"] = input["G"]
  /\ res.parameters["mu"] # I(1)
  /\ Len(res.derivations) = 3

\* validateAllParameters was called on a record that holds field f alone
Validated(f) == pc = "validated" /\ Has(input, f)

\* what the validator of f returned: a hard violation, an advisory whose message
\* starts with "Warning", or null
HardViolation(f) == Len(errs) = 1 /\ errs[1].field = f /\ ~errs[1].warning

Advisory(f) == Len(errs) = 1 /\ errs[1].field = f /\ errs[1].warning

NoFinding == errs = <<>>

NonFinite(x) == x \in {NaN, PosInf, NegInf}

\* C17: validatePoissonsRatio returns a hard violation for every nu that is not
\* finite, <= -1 or >= 0.5 (so for 0.5 and -1), an advisory whose message starts
\* with "Warning" for every nu with -1 < nu < 0, and no finding for every nu
\* with 0 <= nu < 0.5.
C17_PoissonPartition ==
  Validated("nu") =>
    LET nu == input["nu"]
    IN IF NonFinite(nu) \/ RLe(nu, I(-1)) \/ RGe(nu, Norm(1, 2))
       THEN HardViolation("nu")
       ELSE IF RLt(nu, I(0)) THEN Advisory("nu")
       ELSE NoFinding

\* nu = 0.5 was rejected
C17_Witness ==
  /\ Validated("nu")
  /\ input["nu"] = Norm(1, 2)
  /\ HardViolation("nu")

\* the validator of each modulus that must be positive
PositiveModuli == {"mu", "K", "E"}

\* C18: validateShearModulus, validateBulkModulus and validateYoungsModulus each
\* return a hard violation if and only if the value is not finite or <= 0, and
\* no finding for every finite strictly positive value; none returns an advisory.
C18_ModuliPositive ==
  \A f \in PositiveModuli :
    Validated(f) =>
      /\ HardViolation(f) <=> (NonFinite(input[f]) \/ RLe(input[f], I(0)))
      /\ NoFinding <=> (IsFinite(input[f]) /\ RGt(input[f], I(0)))
      /\ ~Advisory(f)

\* K = 0 was rejected
C18_Witness ==
  /\ Validated("K")
  /\ input["K"] = I(0)
  /\ HardViolation("K")

\* C19: validateLameParameter returns an advisory whose message starts with
\* "Warning" for every finite lambda < 0, no finding for every finite
\* lambda >= 0, and a hard violation only for NaN and the infinities.
C19_LameNeverHardWhenFinite ==
  Validated("lambda") =>
    LET lambda == input["lambda"]
    IN IF NonFinite(lambda) THEN HardViolation("lambda")
       ELSE IF RLt(lambda, I(0)) THEN Advisory("lambda")
       ELSE NoFinding

\* a negative lambda got the advisory
C19_Witness ==
  /\ Validated("lambda")
  /\ RLt(input["lambda"], I(0))
  /\ IsFinite(input["lambda"])
  /\ Advisory("lambda")

\* the record and the tolerance checkConsistency was last called with
CheckedRecord == IF pc = "rechecked" THEN res.parameters ELSE input

CheckedTolerance == IF pc = "rechecked" THEN DefaultTolerance ELSE tol

\* the supplied value is within the tolerance of the recomputed one: by relative
\* error for E, mu and K, by the error itself for the ratio nu
Within(c, expected, actual, tolerance) ==
  IF c.field = "nu" THEN RLe(RAbs(RSub(expected, actual)), tolerance)
  ELSE ~Mismatch(expected, actual, tolerance)

\* every one of the four formulas returns the supplied value
MutuallyConsistent(rec) ==
  /\ AllFive(rec)
  /\ \A c \in Range(ConsistencyChecks) :
       /\ Apply(c.fn, rec[c.a], rec[c.b]).ok
       /\ Apply(c.fn, rec[c.a], rec[c.b]).val = rec[c.field]

SumOfSquares(lambda, E) ==
  RAdd(RMul(I(8), RMul(lambda, lambda)),
       RMul(RAdd(lambda, E), RAdd(lambda, E)))

\* the two roots of 2mu^2 + mu(3lambda - E) - E lambda = 0, larger first
LargerRoot(lambda, E) ==
  RDiv(RAdd(RSub(E, RMul(I(3), lambda)), RSqrt(SumOfSquares(lambda, E))), I(4))

SmallerRoot(lambda, E) ==
  RDiv(RSub(RSub(E, RMul(I(3), lambda)), RSqrt(SumOfSquares(lambda, E))), I(4))

\* C25: in the (lambda, E) branch the mu assigned is a root of
\* 2mu^2 + mu(3lambda - E) - E lambda = 0; it is strictly positive whenever at
\* least one root is; and when both roots are strictly positive (lambda < 0 < E)
\* it is the larger root (-b + sqrt(D)) / 4.
C25_RootSelection ==
  SelectedMu =>
    LET lambda == Given["lambda"]
        E == Given["E"]
        mu == res.parameters["mu"]
    IN /\ IsRoot(mu, lambda, E)
       /\ mu \in {LargerRoot(lambda, E), SmallerRoot(lambda, E)}
       /\ (RGt(LargerRoot(lambda, E), I(0)) \/ RGt(SmallerRoot(lambda, E), I(0)))
            => RGt(mu, I(0))
       /\ (RGt(LargerRoot(lambda, E), I(0)) /\ RGt(SmallerRoot(lambda, E), I(0)))
            => /\ RLt(lambda, I(0)) /\ RGt(E, I(0))
               /\ mu = LargerRoot(lambda, E)

\* both roots are strictly positive and differ, and the larger was assigned
C25_Witness ==
  /\ SelectedMu
  /\ RGt(SmallerRoot(Given["lambda"], Given["E"]), I(0))
  /\ RGt(LargerRoot(Given["lambda"], Given["E"]), SmallerRoot(Given["lambda"], Given["E"]))
  /\ res.parameters["mu"] = LargerRoot(Given["lambda"], Given["E"])

\* lambda and E are both supplied
LambdaAndE == Has(input, "lambda") /\ Has(input, "E")

\* C28: the discriminant (3lambda - E)^2 + 8 E lambda computed in the (lambda, E)
\* branch equals 8 lambda^2 + (lambda + E)^2 and is never negative; every call
\* that reaches the branch assigns mu and records the quadratic trace entry, and
\* none returns the 'No real solution' warning.
C28_DiscriminantNeverNegative ==
  /\ LambdaAndE =>
       /\ Discriminant(input["lambda"], input["E"])
            = SumOfSquares(input["lambda"], input["E"])
       /\ RGe(Discriminant(input["lambda"], input["E"]), I(0))
  /\ (pc = "resolved" /\ {f \in Elastic : Has(Given, f)} = {"lambda", "E"}) =>
       /\ Has(res.parameters, "mu")
       /\ QuadraticTrace \in Range(res.derivations)
       /\ res.warnings = <<>>

\* the branch was taken with 8 E lambda negative, and mu was assigned
C28_Witness ==
  /\ SelectedMu
  /\ RLt(RMul(Given["E"], Given["lambda"]), I(0))
  /\ RGt(Discriminant(Given["lambda"], Given["E"]), I(0))
  /\ res.derivations[1] = QuadraticTrace

\* ---- the calculator hook

\* recalculate ran, and the user has made no call since
Ran == last # NoRun

\* what the validator returns for the record the run collected
Validation == validateAllParameters(last.out.inputParams)

HardViolations == {i \in DOMAIN Validation : ~Validation[i].warning}

Advisories == {i \in DOMAIN Validation : Validation[i].warning}

\* the values shown by the fields
Values(st) == [key \in Range(ParameterKeys) |-> st[key].value]

\* the state that holds what the resolver computes from the collected record:
\* the values of the unlocked fields, the trace and the warnings
Resolution(prev, inputParams) ==
  SetResolved(prev, calculateAllParameters(inputParams))

\* C21: when the user-provided values raise only soft advisories (nu in (-1, 0)
\* or lambda < 0) and no hard violation, a recalculation still runs the resolver:
\* with at least two user-provided elastic parameters the unlocked fields
\* receive their computed values and the trace is updated, and the advisory is
\* reported as a warning.
C21_AdvisoryDoesNotBlock ==
  (Ran /\ Advisories # {} /\ HardViolations = {}
       /\ ProvidedCount(last.out.inputParams) = 2) =>
    /\ last.out.kind = "resolved"
    /\ Values(state) = Values(Resolution(last.prev, last.out.inputParams))
    /\ state.derivations = Resolution(last.prev, last.out.inputParams).derivations
    /\ state.warnings # <<>>

\* C22: when validateAllParameters returns at least one hard violation for the
\* user-provided values, the recalculation does not call calculateAllParameters:
\* no parameter changes, the trace stays, and the errors list is set to the
\* validation messages.
C22_HardViolationBlocks ==
  (Ran /\ HardViolations # {}) =>
    /\ last.out.inputParams = CollectInputs(last.closure)
    /\ last.out.kind = "invalid"
    /\ last.out.result = NoResult
    /\ \A key \in Range(ParameterKeys) : state[key] = last.prev[key]
    /\ state.derivations = last.prev.derivations
    /\ state.errors = [i \in DOMAIN Validation |-> <<Validation[i].message>>]

\* two parameters were provided, one of them not admissible, and the fields
\* the resolver would have filled are still empty
C22_Witness ==
  /\ Ran
  /\ HardViolations # {}
  /\ ProvidedCount(last.out.inputParams) = 2
  /\ Len(state.errors) = 1
  /\ \E key \in Elastic :
       /\ state[key].value = Null
       /\ ~state[key].locked
       /\ Has(calculateAllParameters(last.out.inputParams).parameters, key)

\* C23: a recalculation never changes the value of a parameter whose locked
\* flag is true, whatever calculateAllParameters returns for it: across every
\* recalculation a locked parameter keeps the value it had when the
\* recalculation started.
C23_LockedValueKept ==
  Ran =>
    \A key \in Range(ParameterKeys) :
      last.prev[key].locked => state[key] = last.prev[key]

\* the resolver returned, for a locked field, a value other than the one shown
C23_Witness ==
  /\ Ran
  /\ last.out.kind = "resolved"
  /\ \E key \in Elastic :
       /\ last.prev[key].locked
       /\ Has(last.out.result.parameters, key)
       /\ last.out.result.parameters[key] # last.prev[key].value
       /\ state[key].value = last.prev[key].value
       /\ \E other \in Elastic \ {key} :
            /\ state[other].value # last.prev[other].value
            /\ ~state[other].locked

\* the number of pascals in one unit
UnitFactor(unit) ==
  CASE unit = "Pa" -> I(1)
    [] unit = "kPa" -> I(1000)
    [] unit = "MPa" -> I(1000000)
    [] unit = "GPa" -> I(GIGA)

\* the physical value, in pascals, of what a field of a modulus shows
Pascals(param) == RMul(param.value, UnitFactor(param.unit))

Provided(param) == param.userProvided /\ param.value # Null

\* C24: the hook passes every user-provided modulus to the engine in pascals,
\* the displayed value times 1, 1e3, 1e6 or 1e9 for Pa, kPa, MPa, GPa, and
\* writes each computed modulus back converted from pascals to the unit of its
\* field; nu and rho are passed and written unconverted.
C24_ModuliInPascals ==
  Ran =>
    /\ \A key \in ModulusKeys :
         Provided(last.closure[key]) =>
           last.out.inputParams[key] = Pascals(last.closure[key])
    /\ \A key \in {"nu", "rho"} :
         Provided(last.closure[key]) =>
           last.out.inputParams[key] = last.closure[key].value
    /\ last.out.kind = "resolved" =>
         /\ \A key \in ModulusKeys :
              (Has(last.out.result.parameters, key) /\ ~last.prev[key].locked) =>
                Pascals(state[key]) = last.out.result.parameters[key]
         /\ (Has(last.out.result.parameters, "nu") /\ ~last.prev["nu"].locked) =>
              state["nu"].value = last.out.result.parameters["nu"]

\* C26: at most one debounce timer is pending at any time; every change by the
\* user cancels the pending timer and starts a new one, so a burst of
\* updateParameter calls triggers exactly one recalculation, which runs after
\* the last change and reads the values of the last change, never a stale
\* snapshot.
C26_OneTimerOneRun ==
  /\ Cardinality(timers) <= 1
  /\ (~Ran /\ actions > 0) => timers = {state}
  /\ Ran => last.closure = last.prev
  /\ actions > 0 => ~again

\* what checkConsistency returns for the record the run collected
Findings == checkConsistency(last.out.inputParams, DefaultTolerance)

\* C27: when more than two elastic parameters are user-provided and
\* checkConsistency returns at least one finding, the recalculation sets errors
\* to exactly those findings, does not call calculateAllParameters and leaves
\* every parameter unchanged; when it returns no finding, the resolver runs.
C27_FindingsBlock ==
  (Ran /\ Validation = <<>> /\ ProvidedCount(last.out.inputParams) > 2) =>
    IF Len(Findings.inconsistencies) > 0
    THEN /\ last.out.kind = "inconsistent"
         /\ last.out.result = NoResult
         /\ state.errors =
              [i \in DOMAIN Findings.inconsistencies |->
                 <<Findings.inconsistencies[i].field,
                   Findings.inconsistencies[i].expected,
                   Findings.inconsistencies[i].actual>>]
         /\ \A key \in Range(ParameterKeys) : state[key] = last.prev[key]
         /\ state.derivations = last.prev.derivations
    ELSE /\ last.out.kind = "resolved"
         /\ last.out.result = calculateAllParameters(last.out.inputParams)
         /\ state = Resolution(last.prev, last.out.inputParams)

\* three provided parameters contradict each other, and a field the resolver
\* would have filled is still empty
C27_Witness ==
  /\ Ran
  /\ Validation = <<>>
  /\ ProvidedCount(last.out.inputParams) = 3
  /\ Len(state.errors) > 0
  /\ state.errors[1][1] \in Elastic
  /\ \E key \in Elastic :
       /\ state[key].value = Null
       /\ ~state[key].locked
       /\ Has(calculateAllParameters(last.out.inputParams).parameters, key)

\* C29: if the user performs no further action, the hook eventually reaches a
\* state in which no debounce timer is pending and no further recalculation
\* runs: a recalculation's own state update does not keep scheduling another
\* recalculation forever. In a state that a run of recalculate has left as it
\* found it, a pending timer brings the same run and the same state again, with
\* no end; so the runs end only if such a state has no timer pending.
C29_RunsEnd == (Ran /\ state = last.prev) => timers = {}

\* the record of the run holds exactly the parameters that had a value and the
\* userProvided flag, and the run changed no userProvided, locked or unit flag
C30_Inputs ==
  Ran =>
    /\ \A f \in Fields :
         Has(last.out.inputParams, f) <=> (f # "G" /\ Provided(last.closure[f]))
    /\ \A key \in Range(ParameterKeys) :
         /\ state[key].userProvided = last.prev[key].userProvided
         /\ state[key].locked = last.prev[key].locked
         /\ state[key].unit = last.prev[key].unit

\* a step that changes a userProvided flag, or a value without its unit outside
\* a run, is a call of updateParameter for that key: it sets the flag to
\* (value # null) and leaves every other parameter as it was
C30_Update ==
  \A key \in Range(ParameterKeys) :
    (\/ state'[key].userProvided # state[key].userProvided
     \/ /\ state'[key].value # state[key].value
        /\ state'[key].unit = state[key].unit
        /\ last' = NoRun)
      => /\ last' = NoRun
         /\ state'[key].userProvided = (state'[key].value # Null)
         /\ state'[key].locked = state[key].locked
         /\ \A other \in Range(ParameterKeys) \ {key} : state'[other] = state[other]

\* C30: the record a recalculation passes to the validator and the resolver
\* contains exactly the parameters whose userProvided flag is true and whose
\* value is non-null; a recalculation never changes a userProvided, locked or
\* unit flag, so a value it wrote is never an input of a later recalculation;
\* and updateParameter(key, v) sets userProvided to (v # null) for that key only.
C30_InputsAreUserProvided == [](C30_Inputs) /\ [][C30_Update]_vars

\* a run left out a field that shows a value written by an earlier run
C30_Witness ==
  /\ Ran
  /\ last.out.kind = "resolved"
  /\ \E key \in Elastic :
       /\ last.closure[key].value # Null
       /\ ~last.closure[key].userProvided
       /\ ~Has(last.out.inputParams, key)
  /\ \E key \in Elastic : Has(last.out.inputParams, key)

====
